---- MODULE Spec2Model ----
(***************************************************************************)
(* OData element aggregation and query engine of xeokit-bim-viewer.        *)
(*                                                                         *)
(* Two implementations live in the source: the browser-side Server class   *)
(* (Server.getODataElements / _returnODataResponse / _applyODataFilter)    *)
(* and the HTTP server functions (getODataElements / applyODataFilter).    *)
(* Both are modelled; a request runs one of them.                          *)
(*                                                                         *)
(* JavaScript strings are modelled as sequences of one-character strings,  *)
(* so that split, trim, includes, toLowerCase and the regular expressions  *)
(* are computed character by character.                                    *)
(***************************************************************************)
EXTENDS Integers, Sequences, FiniteSets, TLC

(***************************************************************************)
(* JavaScript values                                                       *)
(***************************************************************************)
\* null and undefined: distinguished values that are not strings of the alphabet.
Null == <<"NULL">>
Undefined == <<"UNDEFINED">>

UpperChars == <<"A","B","C","D","E","F","G","H","I","J","K","L","M",
                "N","O","P","Q","R","S","T","U","V","W","X","Y","Z">>
LowerChars == <<"a","b","c","d","e","f","g","h","i","j","k","l","m",
                "n","o","p","q","r","s","t","u","v","w","x","y","z">>
DigitChars == {"0","1","2","3","4","5","6","7","8","9"}

\* \w of a JavaScript regular expression: [A-Za-z0-9_]
IsWordChar(c) ==
    \/ \E i \in 1..26 : c = UpperChars[i] \/ c = LowerChars[i]
    \/ c \in DigitChars
    \/ c = "_"

\* \s of a JavaScript regular expression (the whitespace the model uses)
IsSpaceChar(c) == c \in {" ", "\t", "\n"}

ToLowerChar(c) ==
    IF \E i \in 1..26 : c = UpperChars[i]
    THEN LowerChars[CHOOSE i \in 1..26 : c = UpperChars[i]]
    ELSE c

\* String.prototype.toLowerCase
toLowerCase(s) == [i \in 1..Len(s) |-> ToLowerChar(s[i])]

\* s.substring over 1-based inclusive positions, clipped to the string.
Sub(s, a, b) ==
    LET lo == IF a < 1 THEN 1 ELSE a
        hi == IF b > Len(s) THEN Len(s) ELSE b
    IN IF lo > hi THEN <<>> ELSE SubSeq(s, lo, hi)

\* String.prototype.indexOf from a 1-based position; 0 stands for JavaScript's -1.
indexOf(s, sub, from) ==
    LET hits == {i \in from..(Len(s) - Len(sub) + 1) :
                    Sub(s, i, i + Len(sub) - 1) = sub}
    IN IF hits = {} THEN 0 ELSE CHOOSE i \in hits : \A j \in hits : i <= j

\* String.prototype.includes
includes(s, sub) == indexOf(s, sub, 1) # 0

\* String.prototype.startsWith
startsWith(s, sub) == Len(sub) <= Len(s) /\ Sub(s, 1, Len(sub)) = sub

\* String.prototype.trim
trim(s) ==
    LET keep == {i \in 1..Len(s) : ~IsSpaceChar(s[i])}
    IN IF keep = {} THEN <<>>
       ELSE Sub(s, CHOOSE i \in keep : \A j \in keep : i <= j,
                      CHOOSE i \in keep : \A j \in keep : i >= j)

\* String.prototype.split with a non-empty separator: the sequence of pieces.
RECURSIVE split(_, _)
split(s, sep) ==
    LET p == indexOf(s, sep, 1)
    IN IF p = 0 THEN <<s>>
       ELSE <<Sub(s, 1, p - 1)>> \o split(Sub(s, p + Len(sep), Len(s)), sep)

\* value.replace(/'/g, '')
removeQuotes(s) == SelectSeq(s, LAMBDA c : c # "'")

\* The last position of the run of word characters that starts at i (i - 1
\* when s[i] is not one): a greedy \w+.
WordRunEnd(s, i) ==
    LET stops == {j \in i..Len(s) : ~IsWordChar(s[j])}
    IN IF stops = {} THEN Len(s)
       ELSE (CHOOSE j \in stops : \A k \in stops : j <= k) - 1

\* The same for whitespace: a greedy \s+ or \s*.
SpaceRunEnd(s, i) ==
    LET stops == {j \in i..Len(s) : ~IsSpaceChar(s[j])}
    IN IF stops = {} THEN Len(s)
       ELSE (CHOOSE j \in stops : \A k \in stops : j <= k) - 1

\* '([^']+)' with the opening quote at position q: the position of the closing
\* quote, 0 when the quoted text is empty or unterminated.
QuoteEnd(s, q) ==
    IF q > Len(s) \/ s[q] # "'" THEN 0
    ELSE LET c == indexOf(s, <<"'">>, q + 1)
         IN IF c = 0 \/ c = q + 1 THEN 0 ELSE c
\* The decimal digits of a natural number: the name Object.keys gives an
\* array index, and the text of a number in a query string.
Digits == <<"0", "1", "2", "3", "4", "5", "6", "7", "8", "9">>
RECURSIVE NumberToString(_)
NumberToString(n) ==
    IF n < 10 THEN <<Digits[n + 1]>>
    ELSE NumberToString(n \div 10) \o <<Digits[(n % 10) + 1]>>

DigitValue(c) == CHOOSE d \in 0..9 : Digits[d + 1] = c

\* The number a string of decimal digits denotes.
RECURSIVE DigitsValue(_)
DigitsValue(ds) ==
    IF ds = <<>> THEN 0
    ELSE 10 * DigitsValue(Sub(ds, 1, Len(ds) - 1)) + DigitValue(ds[Len(ds)])

\* The last position of the run of digits that starts at i (i - 1 when s[i]
\* is not a digit).
DigitRunEnd(s, i) ==
    LET stops == {j \in i..Len(s) : s[j] \notin DigitChars}
    IN IF stops = {} THEN Len(s)
       ELSE (CHOOSE j \in stops : \A k \in stops : j <= k) - 1
(***************************************************************************)
(* Regular expressions of the filter parsers                               *)
(***************************************************************************)
NoMatch == [ok |-> FALSE]

\* /(\w+)\s+eq\s+'([^']+)'/ tried at start position i.
eqRegexAt(s, i) ==
    IF i > Len(s) \/ ~IsWordChar(s[i]) THEN NoMatch
    ELSE LET j == WordRunEnd(s, i)          \* (\w+)
             k == SpaceRunEnd(s, j + 1)     \* \s+
         IN IF k < j + 1 \/ Sub(s, k + 1, k + 2) # <<"e", "q">> THEN NoMatch
            ELSE LET m == SpaceRunEnd(s, k + 3)   \* \s+
                     c == QuoteEnd(s, m + 1)              \* '([^']+)'
                 IN IF m < k + 3 \/ c = 0 THEN NoMatch
                    ELSE [ok |-> TRUE, field |-> Sub(s, i, j),
                          value |-> Sub(s, m + 2, c - 1)]

\* filterExpression.match(/(\w+)\s+eq\s+'([^']+)'/): the leftmost match.
eqMatch(s) ==
    LET starts == {i \in 1..Len(s) : eqRegexAt(s, i).ok}
    IN IF starts = {} THEN NoMatch
       ELSE eqRegexAt(s, CHOOSE i \in starts : \A j \in starts : i <= j)

\* /fname\((\w+),\s*'([^']+)'\)/ tried at start position p, fname being
\* "contains" or "startswith".
callRegexAt(s, fname, p) ==
    LET open == fname \o <<"(">>
        a == p + Len(open)
    IN IF Sub(s, p, a - 1) # open \/ a > Len(s) \/ ~IsWordChar(s[a]) THEN NoMatch
       ELSE LET j == WordRunEnd(s, a)       \* (\w+)
            IN IF j + 1 > Len(s) \/ s[j + 1] # "," THEN NoMatch
               ELSE LET k == SpaceRunEnd(s, j + 2)   \* \s*
                        c == QuoteEnd(s, k + 1)              \* '([^']+)'
                    IN IF c = 0 \/ c + 1 > Len(s) \/ s[c + 1] # ")" THEN NoMatch
                       ELSE [ok |-> TRUE, field |-> Sub(s, a, j),
                             value |-> Sub(s, k + 2, c - 1)]

callMatch(s, fname) ==
    LET starts == {p \in 1..Len(s) : callRegexAt(s, fname, p).ok}
    IN IF starts = {} THEN NoMatch
       ELSE callRegexAt(s, fname, CHOOSE p \in starts : \A q \in starts : p <= q)

S_contains == <<"c","o","n","t","a","i","n","s">>
S_startswith == <<"s","t","a","r","t","s","w","i","t","h">>
S_eq == <<" ","e","q"," ">>

\* filterExpression.match(/contains\((\w+),\s*'([^']+)'\)/)
containsMatch(s) == callMatch(s, S_contains)

\* filterExpression.match(/startswith\((\w+),\s*'([^']+)'\)/)
startswithMatch(s) == callMatch(s, S_startswith)

(***************************************************************************)
(* Records and the filter stage                                            *)
(***************************************************************************)
\* element[field]: undefined when the record has no such key.
Get(element, field) ==
    IF field \in DOMAIN element THEN element[field] ELSE Undefined

\* JavaScript truthiness of a string, null or undefined.
Truthy(v) == v # Null /\ v # Undefined /\ v # <<>>

\* Variant: the comparison keeps the case of both strings.
containsPredicate_caseSensitive(element, field, searchValue) ==
    /\ Truthy(Get(element, field))
    /\ includes(Get(element, field), searchValue)

\* element[field] && element[field].toLowerCase().includes(searchValue.toLowerCase())
containsPredicate(element, field, searchValue) ==
    /\ Truthy(Get(element, field))
    /\ includes(toLowerCase(Get(element, field)), toLowerCase(searchValue))

\* Variant: the comparison keeps the case of both strings.
startswithPredicate_caseSensitive(element, field, searchValue) ==
    /\ Truthy(Get(element, field))
    /\ startsWith(Get(element, field), searchValue)

\* element[field] && element[field].toLowerCase().startsWith(searchValue.toLowerCase())
startswithPredicate(element, field, searchValue) ==
    /\ Truthy(Get(element, field))
    /\ startsWith(toLowerCase(Get(element, field)), toLowerCase(searchValue))

\* Variant: a record without the field matches every value.
eqPredicate_undefinedMatches(element, field, value) ==
    Get(element, field) = value \/ Get(element, field) = Undefined

\* element[field] === value
eqPredicate(element, field, value) == Get(element, field) = value

\* Variant: the startswith branch is tried before the contains branch.
callBranches_startswithFirst(elements, filterExpression) ==
    LET cm == containsMatch(filterExpression)
        sm == startswithMatch(filterExpression)
    IN IF includes(filterExpression, S_startswith \o <<"(">>) /\ sm.ok
       THEN SelectSeq(elements, LAMBDA e : startswithPredicate(e, sm.field, sm.value))
       ELSE IF includes(filterExpression, S_contains \o <<"(">>) /\ cm.ok
       THEN SelectSeq(elements, LAMBDA e : containsPredicate(e, cm.field, cm.value))
       ELSE elements

\* The contains and startswith branches, identical in both implementations.
callBranches(elements, filterExpression) ==
    LET cm == containsMatch(filterExpression)
        sm == startswithMatch(filterExpression)
    IN IF includes(filterExpression, S_contains \o <<"(">>) /\ cm.ok
       THEN SelectSeq(elements, LAMBDA e : containsPredicate(e, cm.field, cm.value))
       ELSE IF includes(filterExpression, S_startswith \o <<"(">>) /\ sm.ok
       THEN SelectSeq(elements, LAMBDA e : startswithPredicate(e, sm.field, sm.value))
       ELSE elements

\* Server._applyODataFilter. Every record value is a string or null, so no
\* step inside the try block throws and the catch branch is never taken.
Server_applyODataFilter(elements, filterExpression) ==
    IF includes(filterExpression, S_eq)
    THEN LET parts == split(filterExpression, S_eq)
             field == trim(parts[1])
             value == trim(parts[2])
             cleanValue == removeQuotes(value)
         IN SelectSeq(elements, LAMBDA e : eqPredicate(e, field, cleanValue))
    ELSE callBranches(elements, filterExpression)

\* applyODataFilter of the HTTP server.
applyODataFilter(elements, filterExpression) ==
    IF filterExpression = <<>> THEN elements
    ELSE LET em == eqMatch(filterExpression)
         IN IF em.ok
            THEN SelectSeq(elements, LAMBDA e : eqPredicate(e, em.field, em.value))
            ELSE callBranches(elements, filterExpression)
(***************************************************************************)
(* Query options and the response envelope                                 *)
(***************************************************************************)
\* A $skip or $top as the caller supplies it: absent, NaN (parseInt of a
\* non-numeric query parameter) or an integer.
Absent == [kind |-> "undefined"]
NaNValue == [kind |-> "nan"]
Num(n) == [kind |-> "number", n |-> n]

\* parseInt of an absent, NaN or integer value.
parseInt(v) == IF v.kind = "number" THEN v ELSE NaNValue

\* parseInt of a string: leading whitespace, an optional sign and the longest
\* run of digits; NaN when no digit follows.
parseIntString(s) ==
    LET t == trim(s)
        signed == t # <<>> /\ t[1] \in {"-", "+"}
        first == IF signed THEN 2 ELSE 1
        last == DigitRunEnd(t, first)
        n == DigitsValue(Sub(t, first, last))
    IN IF last < first THEN NaNValue
       ELSE Num(IF signed /\ t[1] = "-" THEN 0 - n ELSE n)

\* handleODataElements: the options prepared from the parameters of the query
\* string; a parameter that is absent or empty leaves its option unset.
handleODataElements_options(query) ==
    [filter |-> IF Truthy(query.filter) THEN query.filter ELSE Undefined,
     select |-> IF Truthy(query.select) THEN query.select ELSE Undefined,
     top |-> IF Truthy(query.top) THEN parseIntString(query.top) ELSE Absent,
     skip |-> IF Truthy(query.skip) THEN parseIntString(query.skip) ELSE Absent]

\* Variant: a negative $skip skips as many records as its absolute value.
skipOf_absolute(options) ==
    LET v == parseInt(options.skip)
    IN IF v.kind = "number" THEN (IF v.n < 0 THEN 0 - v.n ELSE v.n) ELSE 0

\* parseInt(options.$skip) || 0
skipOf(options) ==
    LET v == parseInt(options.skip)
    IN IF v.kind = "number" /\ v.n # 0 THEN v.n ELSE 0

\* top && top > 0, with top = parseInt(options.$top): 0 stands for "no limit".
topOf(options) ==
    LET v == parseInt(options.top)
    IN IF v.kind = "number" /\ v.n > 0 THEN v.n ELSE 0

\* Array.prototype.slice(start) and slice(0, end) for start, end >= 0
sliceFrom(seq, start) == Sub(seq, start + 1, Len(seq))
sliceTo(seq, end) == Sub(seq, 1, end)

\* options.$select.split(',').map(f => f.trim())
selectFields(select) ==
    LET parts == split(select, <<",">>)
    IN [i \in 1..Len(parts) |-> trim(parts[i])]

\* Variant: a requested field whose value is null is left out.
selectElement_dropNull(element, fields) ==
    LET own == {f \in {fields[i] : i \in 1..Len(fields)} \cap DOMAIN element :
                    element[f] # Null}
    IN [f \in own |-> element[f]]

\* The record rebuilt from the requested fields the element owns.
selectElement(element, fields) ==
    LET own == {fields[i] : i \in 1..Len(fields)} \cap DOMAIN element
    IN [f \in own |-> element[f]]

\* The $select stage (options.$select is skipped when absent or empty).
applySelect(elements, options) ==
    IF Truthy(options.select)
    THEN LET fields == selectFields(options.select)
         IN [i \in 1..Len(elements) |-> selectElement(elements[i], fields)]
    ELSE elements

\* Variant: the limit is applied before the skip.
applyPagination_topFirst(elements, options) ==
    LET skip == skipOf(options)
        top == topOf(options)
        limited == IF top > 0 THEN sliceTo(elements, top) ELSE elements
    IN IF skip > 0 THEN sliceFrom(limited, skip) ELSE limited

\* The $skip and $top stage.
applyPagination(elements, options) ==
    LET skip == skipOf(options)
        top == topOf(options)
        skipped == IF skip > 0 THEN sliceFrom(elements, skip) ELSE elements
    IN IF top > 0 THEN sliceTo(skipped, top) ELSE skipped

\* Variant: the count is taken from the filtered, projected, paginated list.
ODataResponse_countFiltered(elements, filteredElements) ==
    [kind |-> "envelope", count |-> Len(filteredElements), value |-> filteredElements]

\* The response object: "@odata.count" and "value".
ODataResponse(elements, filteredElements) ==
    [kind |-> "envelope", count |-> Len(elements), value |-> filteredElements]

ErrorOutcome == [kind |-> "error"]

\* Variant: the projection runs before the filter.
Server_returnODataResponse_selectFirst(elements, options) ==
    LET selected == applySelect(elements, options)
        filtered == IF Truthy(options.filter)
                    THEN Server_applyODataFilter(selected, options.filter)
                    ELSE selected
    IN ODataResponse(elements, applyPagination(filtered, options))

\* Server._returnODataResponse
Server_returnODataResponse(elements, options) ==
    LET filtered == IF Truthy(options.filter)
                    THEN Server_applyODataFilter(elements, options.filter)
                    ELSE elements
    IN ODataResponse(elements, applyPagination(applySelect(filtered, options), options))

\* The response built by the HTTP server's getODataElements once every model
\* has been processed.
http_returnODataResponse(elements, options) ==
    LET filtered == IF Truthy(options.filter)
                    THEN applyODataFilter(elements, options.filter)
                    ELSE elements
    IN ODataResponse(elements, applyPagination(applySelect(filtered, options), options))

(***************************************************************************)
(* Flattener                                                               *)
(***************************************************************************)
F_id == <<"i","d">>
F_projectId == <<"p","r","o","j","e","c","t","I","d">>
F_modelId == <<"m","o","d","e","l","I","d">>
F_name == <<"n","a","m","e">>
F_type == <<"t","y","p","e">>
F_parent == <<"p","a","r","e","n","t">>
F_attributes == <<"a","t","t","r","i","b","u","t","e","s">>

\* metaObject.<key>: undefined when the MetaObject has no such property.
Prop(metaObject, key) ==
    IF key \in DOMAIN metaObject THEN metaObject[key] ELSE Undefined

\* x || null
orNull(v) == IF Truthy(v) THEN v ELSE Null

\* JSON.stringify of an attributes mapping, given as a sequence of
\* <<key, value>> string pairs: {"k":"v",...}
RECURSIVE stringifyPairs(_)
stringifyPairs(pairs) ==
    IF pairs = <<>> THEN <<>>
    ELSE <<"\"">> \o pairs[1][1] \o <<"\"", ":", "\"">> \o pairs[1][2] \o <<"\"">>
         \o (IF Len(pairs) > 1 THEN <<",">> ELSE <<>>)
         \o stringifyPairs(Tail(pairs))

JSONstringify(attributes) == <<"{">> \o stringifyPairs(attributes) \o <<"}">>

\* metaObject.attributes ? JSON.stringify(metaObject.attributes) : null
\* (an object, even an empty one, is truthy)
attributesOf(metaObject) ==
    IF "attributes" \in DOMAIN metaObject
    THEN JSONstringify(metaObject.attributes)
    ELSE Null

\* metadata.metaObjects is an array of MetaObjects or a mapping from object id
\* to MetaObject; a mapping is held as its entries in own-property order.
IsArray(metaObjects) == metaObjects.shape = "array"

\* Object.keys(metadata.metaObjects): the indices of an array, the keys of a
\* mapping.
ObjectKeys(metaObjects) ==
    [i \in 1..Len(metaObjects.entries) |->
        IF IsArray(metaObjects) THEN NumberToString(i - 1) ELSE metaObjects.entries[i].key]

\* Variant: an optional field the MetaObject lacks is left out of the element.
flatElement_omitAbsent(id, projectId, modelId, metaObject) ==
    LET full == (F_id :> id) @@ (F_projectId :> projectId) @@ (F_modelId :> modelId) @@
                (F_name :> orNull(Prop(metaObject, "name"))) @@
                (F_type :> orNull(Prop(metaObject, "type"))) @@
                (F_parent :> orNull(Prop(metaObject, "parent"))) @@
                (F_attributes :> attributesOf(metaObject))
    IN [f \in {g \in DOMAIN full : full[g] # Null} |-> full[f]]

\* The flat element built for one MetaObject.
flatElement(id, projectId, modelId, metaObject) ==
    (F_id :> id) @@
    (F_projectId :> projectId) @@
    (F_modelId :> modelId) @@
    (F_name :> orNull(Prop(metaObject, "name"))) @@
    (F_type :> orNull(Prop(metaObject, "type"))) @@
    (F_parent :> orNull(Prop(metaObject, "parent"))) @@
    (F_attributes :> attributesOf(metaObject))

\* metadata && metadata.metaObjects
hasMetaObjects(metadata) == "metaObjects" \in DOMAIN metadata

\* Server.getODataElements: metadata.metaObjects.forEach is a function only
\* when metaObjects is an array; on a mapping the call throws a TypeError
\* before any element is pushed.
Server_forEachThrows(metadata) ==
    hasMetaObjects(metadata) /\ ~IsArray(metadata.metaObjects)

\* Server.getODataElements: the elements one metadata document contributes,
\* with id: metaObject.id.
Server_flatten(projectId, modelId, metadata) ==
    IF hasMetaObjects(metadata) /\ IsArray(metadata.metaObjects)
    THEN [i \in 1..Len(metadata.metaObjects.entries) |->
            flatElement(Prop(metadata.metaObjects.entries[i].value, "id"),
                        projectId, modelId, metadata.metaObjects.entries[i].value)]
    ELSE <<>>

\* getODataElements of the HTTP server: the elements one metadata document
\* contributes, with id: objectId taken from Object.keys.
http_flatten(projectId, modelId, metadata) ==
    IF hasMetaObjects(metadata)
    THEN [i \in 1..Len(metadata.metaObjects.entries) |->
            flatElement(ObjectKeys(metadata.metaObjects)[i],
                        projectId, modelId, metadata.metaObjects.entries[i].value)]
    ELSE <<>>

\* The elements the implementation im builds from a document.
flatten(im, projectId, modelId, metadata) ==
    IF im = "class" THEN Server_flatten(projectId, modelId, metadata)
    ELSE http_flatten(projectId, modelId, metadata)
(***************************************************************************)
(* Backing store: project descriptors and model metadata documents         *)
(***************************************************************************)
Str_1 == <<"1">>
Str_2 == <<"2">>
Str_3 == <<"3">>
Str_4 == <<"4">>
Str_Wall == <<"W","a","l","l">>
Str_wall == <<"w","a","l","l">>
Str_Door == <<"D","o","o","r">>
Str_Pump == <<"P","u","m","p">>
Str_sump == <<"s","u","m","p">>
Str_aeqb == <<"a"," ","e","q"," ","b">>

M_A == <<"m","A">>
M_B == <<"m","B">>
M_C == <<"m","C">>
M_D == <<"m","D">>
ModelIds == {M_A, M_B, M_C, M_D}

P_missing == <<"p","X">>
P_broken == <<"p","Y">>
P_nolist == <<"p","N">>
P_empty == <<"p","0">>
P_one == <<"p","1">>
P_two == <<"p","2">>
P_three == <<"p","3">>
P_keyed == <<"p","K">>
ProjectIds == {P_missing, P_broken, P_nolist, P_empty, P_one, P_two, P_three, P_keyed}

\* metadata.json of each model: mA and mB hold their MetaObjects in an array
\* (mB's second object carries no id), mD in a mapping keyed by object id, mC
\* has no metaObjects.
ArrayOf(objects) ==
    [shape |-> "array", entries |-> [i \in 1..Len(objects) |-> [value |-> objects[i]]]]
MappingOf(entries) == [shape |-> "object", entries |-> entries]

MetadataDoc(modelId) ==
    IF modelId = M_A
    THEN [metaObjects |-> ArrayOf(<<
            [id |-> Str_1, name |-> Str_Pump, type |-> Str_Wall,
             attributes |-> << <<<<"k">>, <<"v">>>> >>],
            [id |-> Str_2, type |-> Str_Door, parent |-> Str_1],
            [id |-> Str_3, name |-> Str_sump, type |-> Str_wall,
             parent |-> Str_1, attributes |-> <<>>] >>)]
    ELSE IF modelId = M_B
    THEN [metaObjects |-> ArrayOf(<<
            [id |-> Str_1, name |-> Str_aeqb, type |-> Str_Wall],
            [name |-> <<>>, parent |-> Str_1] >>)]
    ELSE IF modelId = M_D
    THEN [metaObjects |-> MappingOf(<<
            [key |-> Str_1, value |-> [name |-> Str_Pump, type |-> Str_Wall]],
            [key |-> Str_4, value |-> [type |-> Str_Door, parent |-> Str_1]] >>)]
    ELSE [schema |-> Str_1]

\* projects/<projectId>/index.json: its status and, when it parses, its content.
ProjectFile(projectId) ==
    IF projectId = P_missing THEN [status |-> "notfound"]
    ELSE IF projectId = P_broken THEN [status |-> "unparseable"]
    ELSE IF projectId = P_nolist THEN [status |-> "ok", data |-> [id |-> projectId]]
    ELSE [status |-> "ok",
          data |-> [id |-> projectId,
                    models |-> IF projectId = P_empty THEN <<>>
                               ELSE IF projectId = P_one THEN <<[id |-> M_A]>>
                               ELSE IF projectId = P_two THEN <<[id |-> M_A], [id |-> M_B]>>
                               ELSE IF projectId = P_keyed THEN <<[id |-> M_D], [id |-> M_A]>>
                               ELSE <<[id |-> M_A], [id |-> M_C], [id |-> M_B]>>]]

\* The model references of a project's descriptor (none when it has no list
\* or cannot be loaded).
ModelRefs(projectId) ==
    LET f == ProjectFile(projectId)
    IN IF f.status = "ok" /\ "models" \in DOMAIN f.data THEN f.data.models ELSE <<>>

\* How a metadata fetch ends: the document is delivered, the fetch fails (file
\* absent or malformed), or the provider never calls back.
FetchStatuses == {"ok", "failed", "hang"}

(***************************************************************************)
(* Inputs                                                                  *)
(***************************************************************************)
Quoted(v) == <<"'">> \o v \o <<"'">>
EqFilter(field, value) == field \o S_eq \o Quoted(value)
CallFilter(fname, field, value) ==
    fname \o <<"(">> \o field \o <<",", " ">> \o Quoted(value) \o <<")">>

FLT_eqWall == EqFilter(F_type, Str_Wall)
FLT_eqEmpty == EqFilter(F_type, <<>>)
FLT_eqCompound == EqFilter(F_type, Str_Wall) \o <<" ","a","n","d"," ">> \o EqFilter(F_id, Str_1)
FLT_eqAeqb == EqFilter(F_name, Str_aeqb)
FLT_containsUm == CallFilter(S_contains, F_name, <<"u","M">>)
FLT_containsEmpty == CallFilter(S_contains, F_name, <<>>)
FLT_containsEq == CallFilter(S_contains, F_name, Str_aeqb)
FLT_startswithPu == CallFilter(S_startswith, F_name, <<"p","U">>)
FLT_startswithEmpty == CallFilter(S_startswith, F_name, <<>>)
FLT_startswithEq == CallFilter(S_startswith, F_name, Str_aeqb)
S_and == <<" ","a","n","d"," ">>
FLT_startswithAndContains == FLT_startswithPu \o S_and \o FLT_containsUm
FLT_containsAndEq == FLT_containsUm \o S_and \o FLT_eqWall
FLT_unknown == <<"f","o","o"," ","b","a","r">>
FLT_eqUnquoted == F_type \o S_eq \o Str_Wall
F_zz == <<"z","z">>
FLT_eqNoField == EqFilter(F_zz, Str_Wall)
FLT_containsNoField == CallFilter(S_contains, F_zz, <<"u","M">>)

Filters == {Undefined, FLT_eqWall, FLT_eqEmpty, FLT_eqAeqb, FLT_eqCompound, FLT_containsUm,
            FLT_containsEmpty, FLT_containsEq, FLT_startswithPu, FLT_startswithEmpty,
            FLT_startswithEq, FLT_unknown, FLT_eqUnquoted, FLT_eqNoField,
            FLT_containsNoField, FLT_startswithAndContains, FLT_containsAndEq}

SEL_id == F_id
SEL_idNameZz == F_id \o <<",", " ">> \o F_name \o <<",">> \o <<"z","z">>
Selects == {Undefined, SEL_id, SEL_idNameZz}

MaxSkip == 2
MaxTop == 2
SkipValues == {Absent, NaNValue} \cup {Num(n) : n \in -1..MaxSkip}
TopValues == {Absent, NaNValue} \cup {Num(n) : n \in -1..MaxTop}

OptionsSet == [filter : Filters, select : Selects, skip : SkipValues, top : TopValues]

\* The text a caller of the HTTP endpoint sends for a $skip or $top: nothing,
\* a word that is no number, or the decimal text of the integer.
S_abc == <<"a", "b", "c">>
NumberText(v) ==
    IF v.kind = "undefined" THEN Undefined
    ELSE IF v.kind = "nan" THEN S_abc
    ELSE IF v.n < 0 THEN <<"-">> \o NumberToString(0 - v.n)
    ELSE NumberToString(v.n)

\* The query string parameters that ask the HTTP endpoint for options o.
QueryOf(o) ==
    [filter |-> o.filter, select |-> o.select,
     top |-> NumberText(o.top), skip |-> NumberText(o.skip)]

\* The options getODataElements receives: the caller's object in the Server
\* class, the options handleODataElements prepares in the HTTP server.
OptionsReceived(im, o) ==
    IF im = "http" THEN handleODataElements_options(QueryOf(o)) ELSE o

Impls == {"class", "http"}
Requests == {1, 2}

(***************************************************************************)
(* State                                                                   *)
(***************************************************************************)
VARIABLES
    modelFile,        \* backing store: model id -> how a fetch of its metadata ends
    impl,             \* request -> the implementation serving it
    projectId,        \* request -> projectId argument
    options,          \* request -> options argument
    phase,            \* request -> "unused" | "project" | "models" | "done"
    elements,         \* request -> the elements array of the closure
    modelsProcessed,  \* request -> the modelsProcessed counter of the closure
    totalModels,      \* request -> the totalModels constant of the closure
    fetch,            \* request -> per model reference: "outstanding" | "ok" | "failed" | "threw"
    replies           \* request -> the outcomes handed to the caller, in order

vars == <<modelFile, impl, projectId, options, phase, elements, modelsProcessed,
          totalModels, fetch, replies>>

\* The models a set of projects refers to.
ReferencedModels(pids) ==
    UNION {{ModelRefs(p)[i].id : i \in 1..Len(ModelRefs(p))} : p \in pids}
DefaultOptions == [filter |-> Undefined, select |-> Undefined, skip |-> Absent, top |-> Absent]

\* Stores in which only the models some request refers to vary.
Stores(pids) ==
    {mf \in [ModelIds -> FetchStatuses] :
        \A m \in ModelIds \ ReferencedModels(pids) : mf[m] = "ok"}

\* The options of the requests that run against every project and every store.
CoreOptions ==
    [filter : {Undefined, FLT_eqWall, FLT_containsUm}, select : {Undefined, SEL_id},
     skip : {Absent, Num(1)}, top : {Absent, Num(1)}]

\* The requests checked: every project and store with the core options, and
\* every combination of options against the empty and the two-model project
\* with every fetch settling.
Inputs ==
    UNION {[p : {q}, mf : Stores({q}), o : CoreOptions] : q \in ProjectIds}
    \cup
    UNION {[p : {q}, mf : {mf \in Stores({q}) : \A m \in ModelIds : mf[m] # "hang"},
            o : OptionsSet] : q \in {P_empty, P_two}}

\* One request: getODataElements has been called and the descriptor load is
\* outstanding.
Init ==
    /\ \E in \in Inputs, im \in Impls :
        /\ modelFile = in.mf
        /\ impl = [r \in Requests |-> IF r = 1 THEN im ELSE "class"]
        /\ projectId = [r \in Requests |-> IF r = 1 THEN in.p ELSE P_empty]
        /\ options = [r \in Requests |-> IF r = 1 THEN OptionsReceived(im, in.o) ELSE DefaultOptions]
    /\ phase = [r \in Requests |-> IF r = 1 THEN "project" ELSE "unused"]
    /\ elements = [r \in Requests |-> <<>>]
    /\ modelsProcessed = [r \in Requests |-> 0]
    /\ totalModels = [r \in Requests |-> 0]
    /\ fetch = [r \in Requests |-> <<>>]
    /\ replies = [r \in Requests |-> <<>>]

(***************************************************************************)
(* Handlers                                                                *)
(***************************************************************************)
\* The caller's done or error callback receives an outcome; the request's
\* handler is finished.
Deliver(r, outcome) ==
    /\ replies' = [replies EXCEPT ![r] = Append(@, outcome)]
    /\ phase' = [phase EXCEPT ![r] = "done"]

\* projectData.models.forEach(...): one metadata fetch per model reference.
StartFetches(r, models) ==
    /\ totalModels' = [totalModels EXCEPT ![r] = Len(models)]
    /\ fetch' = [fetch EXCEPT ![r] = [i \in 1..Len(models) |-> "outstanding"]]
    /\ phase' = [phase EXCEPT ![r] = "models"]

\* Variant: an empty model list is rejected too.
Server_projectRejected_orEmpty(projectData) ==
    "models" \notin DOMAIN projectData \/ Len(projectData.models) = 0

\* !projectData || !projectData.models  (the descriptor delivered is an object;
\* an empty array is truthy)
Server_projectRejected(projectData) ==
    "models" \notin DOMAIN projectData

\* !projectData.models || projectData.models.length === 0
http_projectHasNoModels(projectData) ==
    "models" \notin DOMAIN projectData \/ Len(projectData.models) = 0

\* Variant: the response is built as soon as one model is processed.
allModelsProcessed_first(processed, total) == processed >= 1

\* modelsProcessed === totalModels
allModelsProcessed(processed, total) == processed = total

\* Server.getODataElements: the done callback of getProject.
GetProjectDone(r) ==
    /\ impl[r] = "class" /\ phase[r] = "project"
    /\ ProjectFile(projectId[r]).status = "ok"
    /\ LET projectData == ProjectFile(projectId[r]).data
       IN IF Server_projectRejected(projectData)
          THEN /\ Deliver(r, ErrorOutcome)
               /\ UNCHANGED <<totalModels, fetch>>
          ELSE IF Len(projectData.models) = 0
          THEN /\ Deliver(r, Server_returnODataResponse(<<>>, options[r]))
               /\ UNCHANGED <<totalModels, fetch>>
          ELSE /\ StartFetches(r, projectData.models)
               /\ UNCHANGED replies
    /\ UNCHANGED <<modelFile, impl, projectId, options, elements, modelsProcessed>>

\* Variant: a descriptor that cannot be loaded is answered with an empty envelope.
GetProjectError_empty(r) ==
    /\ impl[r] = "class" /\ phase[r] = "project"
    /\ ProjectFile(projectId[r]).status # "ok"
    /\ Deliver(r, ODataResponse(<<>>, <<>>))
    /\ UNCHANGED <<modelFile, impl, projectId, options, elements, modelsProcessed,
                   totalModels, fetch>>

\* Server.getODataElements: getProject reports an error to the caller's error callback.
GetProjectError(r) ==
    /\ impl[r] = "class" /\ phase[r] = "project"
    /\ ProjectFile(projectId[r]).status # "ok"
    /\ Deliver(r, ErrorOutcome)
    /\ UNCHANGED <<modelFile, impl, projectId, options, elements, modelsProcessed,
                   totalModels, fetch>>

\* The model reference a fetch is for.
ModelOf(r, i) == ModelRefs(projectId[r])[i].id

\* Variant: modelsProcessed is one counter shared by all requests.
ModelProcessed_sharedCounter(r, i, how, newElements, response) ==
    /\ fetch' = [fetch EXCEPT ![r][i] = how]
    /\ elements' = [elements EXCEPT ![r] = newElements]
    /\ modelsProcessed' = [q \in Requests |-> modelsProcessed[q] + 1]
    /\ IF allModelsProcessed(modelsProcessed[r] + 1, totalModels[r])
       THEN Deliver(r, response)
       ELSE UNCHANGED <<replies, phase>>

\* modelsProcessed++ and, when every model is processed, the response.
ModelProcessed(r, i, how, newElements, response) ==
    /\ fetch' = [fetch EXCEPT ![r][i] = how]
    /\ elements' = [elements EXCEPT ![r] = newElements]
    /\ modelsProcessed' = [modelsProcessed EXCEPT ![r] = @ + 1]
    /\ IF allModelsProcessed(modelsProcessed[r] + 1, totalModels[r])
       THEN Deliver(r, response)
       ELSE UNCHANGED <<replies, phase>>

\* Server.getODataElements: the done callback of getMetadata for model reference i.
\* When forEach throws, the exception leaves the callback before
\* modelsProcessed++ and nothing further happens for this fetch.
GetMetadataDone(r, i) ==
    /\ impl[r] = "class"
    /\ i \in DOMAIN fetch[r] /\ fetch[r][i] = "outstanding"
    /\ modelFile[ModelOf(r, i)] = "ok"
    /\ LET metadata == MetadataDoc(ModelOf(r, i))
           newElements == elements[r] \o
                Server_flatten(projectId[r], ModelOf(r, i), metadata)
       IN IF Server_forEachThrows(metadata)
          THEN /\ fetch' = [fetch EXCEPT ![r][i] = "threw"]
               /\ UNCHANGED <<elements, modelsProcessed, replies, phase>>
          ELSE ModelProcessed(r, i, "ok", newElements,
                              Server_returnODataResponse(newElements, options[r]))
    /\ UNCHANGED <<modelFile, impl, projectId, options, totalModels>>

\* Variant: a failed metadata fetch is reported to the caller as an error.
GetMetadataError_abort(r, i) ==
    /\ impl[r] = "class"
    /\ i \in DOMAIN fetch[r] /\ fetch[r][i] = "outstanding"
    /\ modelFile[ModelOf(r, i)] = "failed"
    /\ fetch' = [fetch EXCEPT ![r][i] = "failed"]
    /\ Deliver(r, ErrorOutcome)
    /\ UNCHANGED <<modelFile, impl, projectId, options, totalModels, elements,
                   modelsProcessed>>

\* Server.getODataElements: the error callback of getMetadata for model reference i.
GetMetadataError(r, i) ==
    /\ impl[r] = "class"
    /\ i \in DOMAIN fetch[r] /\ fetch[r][i] = "outstanding"
    /\ modelFile[ModelOf(r, i)] = "failed"
    /\ ModelProcessed(r, i, "failed", elements[r],
                      Server_returnODataResponse(elements[r], options[r]))
    /\ UNCHANGED <<modelFile, impl, projectId, options, totalModels>>

\* getODataElements of the HTTP server: the callback given to loadProject.
LoadProjectCallback(r) ==
    /\ impl[r] = "http" /\ phase[r] = "project"
    /\ LET file == ProjectFile(projectId[r])
           error == file.status # "ok"
       IN IF error
          THEN /\ Deliver(r, ErrorOutcome)
               /\ UNCHANGED <<totalModels, fetch>>
          ELSE IF http_projectHasNoModels(file.data)
          THEN /\ Deliver(r, ODataResponse(<<>>, <<>>))
               /\ UNCHANGED <<totalModels, fetch>>
          ELSE /\ StartFetches(r, file.data.models)
               /\ UNCHANGED replies
    /\ UNCHANGED <<modelFile, impl, projectId, options, elements, modelsProcessed>>

\* getODataElements of the HTTP server: the callback given to loadModelMetadata
\* for model reference i, called with the document or with an error.
LoadModelMetadataCallback(r, i) ==
    /\ impl[r] = "http"
    /\ i \in DOMAIN fetch[r] /\ fetch[r][i] = "outstanding"
    /\ modelFile[ModelOf(r, i)] \in {"ok", "failed"}
    /\ LET error == modelFile[ModelOf(r, i)] = "failed"
           newElements ==
               IF error THEN elements[r]
               ELSE elements[r] \o
                    http_flatten(projectId[r], ModelOf(r, i), MetadataDoc(ModelOf(r, i)))
       IN ModelProcessed(r, i, IF error THEN "failed" ELSE "ok", newElements,
                         http_returnODataResponse(newElements, options[r]))
    /\ UNCHANGED <<modelFile, impl, projectId, options, totalModels>>

\* The steps of one request.
RequestStep(r) ==
    \/ GetProjectDone(r)
    \/ GetProjectError(r)
    \/ LoadProjectCallback(r)
    \/ \E i \in DOMAIN fetch[r] :
        \/ GetMetadataDone(r, i)
        \/ GetMetadataError(r, i)
        \/ LoadModelMetadataCallback(r, i)

Next == \E r \in Requests : RequestStep(r)

Spec == Init /\ [][Next]_vars

\* One request with pagination options only, against every project and store.
PlainOptions ==
    [filter : {Undefined}, select : {Undefined},
     skip : {Absent, Num(1)}, top : {Absent, Num(1)}]

InitPlain ==
    /\ \E p \in ProjectIds, o \in PlainOptions, im \in Impls :
        /\ modelFile \in Stores({p})
        /\ impl = [r \in Requests |-> IF r = 1 THEN im ELSE "class"]
        /\ projectId = [r \in Requests |-> IF r = 1 THEN p ELSE P_empty]
        /\ options = [r \in Requests |-> IF r = 1 THEN OptionsReceived(im, o) ELSE DefaultOptions]
    /\ phase = [r \in Requests |-> IF r = 1 THEN "project" ELSE "unused"]
    /\ elements = [r \in Requests |-> <<>>]
    /\ modelsProcessed = [r \in Requests |-> 0]
    /\ totalModels = [r \in Requests |-> 0]
    /\ fetch = [r \in Requests |-> <<>>]
    /\ replies = [r \in Requests |-> <<>>]

\* The event loop runs every callback that is ready.
FairSpec == InitPlain /\ [][Next]_vars /\ WF_vars(Next)

\* One request against a store in which every metadata fetch settles: the
\* provider calls one callback for each fetch.
InitSettling ==
    /\ \E p \in ProjectIds, o \in PlainOptions, im \in Impls :
        /\ modelFile \in {mf \in Stores({p}) : \A m \in ModelIds : mf[m] # "hang"}
        /\ impl = [r \in Requests |-> IF r = 1 THEN im ELSE "class"]
        /\ projectId = [r \in Requests |-> IF r = 1 THEN p ELSE P_empty]
        /\ options = [r \in Requests |-> IF r = 1 THEN OptionsReceived(im, o) ELSE DefaultOptions]
    /\ phase = [r \in Requests |-> IF r = 1 THEN "project" ELSE "unused"]
    /\ elements = [r \in Requests |-> <<>>]
    /\ modelsProcessed = [r \in Requests |-> 0]
    /\ totalModels = [r \in Requests |-> 0]
    /\ fetch = [r \in Requests |-> <<>>]
    /\ replies = [r \in Requests |-> <<>>]

FairSpecSettling == InitSettling /\ [][Next]_vars /\ WF_vars(Next)

\* The same request served by both implementations against one store in which
\* every fetch settles: request 1 by the Server class, request 2 by the HTTP
\* server.
BothOptions ==
    {DefaultOptions,
     [filter |-> FLT_eqWall, select |-> SEL_id, skip |-> Num(1), top |-> Absent],
     [filter |-> FLT_eqEmpty, select |-> Undefined, skip |-> Absent, top |-> Absent],
     [filter |-> FLT_eqCompound, select |-> Undefined, skip |-> Absent, top |-> Absent],
     [filter |-> FLT_containsUm, select |-> Undefined, skip |-> Absent, top |-> Num(1)]}

InitBoth ==
    /\ \E p \in ProjectIds, o \in BothOptions :
        /\ modelFile \in {mf \in Stores({p}) : \A m \in ModelIds : mf[m] # "hang"}
        /\ projectId = [r \in Requests |-> p]
        /\ options = [r \in Requests |->
                        OptionsReceived(IF r = 1 THEN "class" ELSE "http", o)]
    /\ impl = [r \in Requests |-> IF r = 1 THEN "class" ELSE "http"]
    /\ phase = [r \in Requests |-> "project"]
    /\ elements = [r \in Requests |-> <<>>]
    /\ modelsProcessed = [r \in Requests |-> 0]
    /\ totalModels = [r \in Requests |-> 0]
    /\ fetch = [r \in Requests |-> <<>>]
    /\ replies = [r \in Requests |-> <<>>]

SpecBoth == InitBoth /\ [][Next]_vars

\* Two requests in flight at once against one store.
TwoOptions ==
    {DefaultOptions,
     [filter |-> Undefined, select |-> Undefined, skip |-> Num(1), top |-> Num(1)],
     [filter |-> FLT_eqWall, select |-> SEL_id, skip |-> Absent, top |-> Absent]}

TwoProjects == {P_missing, P_one, P_two}

InitTwo ==
    /\ \E p1 \in TwoProjects, p2 \in TwoProjects, o1 \in TwoOptions, o2 \in TwoOptions,
          im1 \in Impls, im2 \in Impls :
        /\ modelFile \in {mf \in Stores({p1, p2}) : \A m \in ModelIds : mf[m] # "hang"}
        /\ impl = [r \in Requests |-> IF r = 1 THEN im1 ELSE im2]
        /\ projectId = [r \in Requests |-> IF r = 1 THEN p1 ELSE p2]
        /\ options = [r \in Requests |-> IF r = 1 THEN OptionsReceived(im1, o1) ELSE OptionsReceived(im2, o2)]
    /\ phase = [r \in Requests |-> "project"]
    /\ elements = [r \in Requests |-> <<>>]
    /\ modelsProcessed = [r \in Requests |-> 0]
    /\ totalModels = [r \in Requests |-> 0]
    /\ fetch = [r \in Requests |-> <<>>]
    /\ replies = [r \in Requests |-> <<>>]

SpecTwo == InitTwo /\ [][Next]_vars
(***************************************************************************)
(* Vocabulary of the properties                                            *)
(***************************************************************************)
\* The request has handed an envelope to its caller.
DeliveredEnvelope(r) ==
    phase[r] = "done" /\ Len(replies[r]) >= 1 /\ replies[r][1].kind = "envelope"

\* Every metadata fetch the request started has called back and its callback
\* has returned.
AllSettled(r) == \A i \in DOMAIN fetch[r] : fetch[r][i] \in {"ok", "failed"}

\* The descriptor of the request's project loads.
DescriptorLoads(r) == ProjectFile(projectId[r]).status = "ok"

Occurrences(seq, x) == Cardinality({i \in DOMAIN seq : seq[i] = x})
Range(seq) == {seq[i] : i \in DOMAIN seq}
SameRecords(s1, s2) ==
    /\ Len(s1) = Len(s2)
    /\ \A x \in Range(s1) \cup Range(s2) : Occurrences(s1, x) = Occurrences(s2, x)

\* The records of the models of the request's project whose metadata the store
\* delivers, model by model in the descriptor's order.
RECURSIVE LoadableRecords(_, _, _, _)
LoadableRecords(im, pid, refs, store) ==
    IF refs = <<>> THEN <<>>
    ELSE (IF store[refs[1].id] = "ok"
          THEN flatten(im, pid, refs[1].id, MetadataDoc(refs[1].id))
          ELSE <<>>)
         \o LoadableRecords(im, pid, Tail(refs), store)

\* The window of S that skips s records and then keeps at most t (t = 0: all).
Window(S, s, t) ==
    LET rest == IF Len(S) > s THEN Len(S) - s ELSE 0
        n == IF t > 0 /\ t < rest THEN t ELSE rest
    IN [i \in 1..n |-> S[s + i]]

RequestedSkip(o) == IF o.skip.kind = "number" /\ o.skip.n > 0 THEN o.skip.n ELSE 0
RequestedTop(o) == IF o.top.kind = "number" /\ o.top.n > 0 THEN o.top.n ELSE 0

\* The field names a $select of the model asks for.
RequestedFields(select) ==
    IF select = SEL_id THEN {F_id} ELSE {F_id, F_name, <<"z","z">>}

Projected(e, o) ==
    IF o.select = Undefined THEN e
    ELSE [f \in RequestedFields(o.select) \cap DOMAIN e |-> e[f]]

\* Filter with Keep on the original records, then project, then paginate.
ExpectedValue(elems, Keep(_), o) ==
    LET kept == SelectSeq(elems, Keep)
        projected == [i \in 1..Len(kept) |-> Projected(kept[i], o)]
    IN Window(projected, RequestedSkip(o), RequestedTop(o))

\* Case-insensitive substring match on a non-null field.
ContainsIgnoringCase(e, f, v) ==
    /\ f \in DOMAIN e /\ e[f] # Null
    /\ includes(toLowerCase(e[f]), toLowerCase(v))

\* Case-insensitive prefix match on a non-null field.
StartsWithIgnoringCase(e, f, v) ==
    /\ f \in DOMAIN e /\ e[f] # Null
    /\ startsWith(toLowerCase(e[f]), toLowerCase(v))

FieldNames == {F_id, F_projectId, F_modelId, F_name, F_type, F_parent, F_attributes}
FilterValues == {<<>>, Str_Wall, Str_aeqb, <<"u","M">>, <<"p","U">>}

(***************************************************************************)
(* Properties                                                              *)
(***************************************************************************)

\* C1: whatever the query options, the count of a delivered envelope is the
\* number of aggregated records, taken before filter, projection and
\* pagination; it is the length of the value only when the two coincide.
C1_TotalCountIsAggregateCount ==
    \A r \in Requests : \A k \in DOMAIN replies[r] :
        replies[r][k].kind = "envelope" => replies[r][k].count = Len(elements[r])

C1_Witness ==
    /\ DeliveredEnvelope(1)
    /\ options[1].filter = FLT_eqWall /\ options[1].select = SEL_id
    /\ options[1].skip = Num(1) /\ options[1].top = Num(1)
    /\ replies[1][1].count = 5 /\ Len(replies[1][1].value) = 1

C3_EnvelopeOnlyAfterAllSettled ==
    \A r \in Requests : \A k \in DOMAIN replies[r] :
        replies[r][k].kind = "envelope" =>
            \A i \in 1..Len(ModelRefs(projectId[r])) :
                i \in DOMAIN fetch[r] /\ fetch[r][i] \in {"ok", "failed"}

C3_Witness ==
    /\ projectId[1] = P_three /\ DeliveredEnvelope(1)
    /\ fetch[1] = <<"failed", "ok", "ok">>
    /\ elements[1][1][F_modelId] = M_B

\* C4: two runs of the same query by the same implementation against one
\* store deliver the same outcome, whatever order the fetches complete in.
C4_Idempotent ==
    (/\ phase[1] = "done" /\ phase[2] = "done"
     /\ impl[1] = impl[2] /\ projectId[1] = projectId[2] /\ options[1] = options[2])
        => replies[1] = replies[2]

\* C5: when the descriptor cannot be loaded, no metadata fetch is started, no
\* envelope is delivered, and the finished request has reported one error.
C5_MissingProjectIsAnError ==
    \A r \in Requests :
        (phase[r] # "unused" /\ ~DescriptorLoads(r)) =>
            /\ fetch[r] = <<>> /\ elements[r] = <<>>
            /\ \A k \in DOMAIN replies[r] : replies[r][k].kind = "error"
            /\ phase[r] = "done" => replies[r] = <<ErrorOutcome>>

C5_Witness ==
    /\ projectId[1] = P_broken /\ phase[1] = "done"
    /\ replies[1] = <<ErrorOutcome>> /\ options[1].filter = FLT_eqWall

C7_NoHang ==
    \A r \in Requests : (phase[r] = "models") ~> (phase[r] = "done")

\* C8: the stages run as filter, then projection, then pagination: the filter
\* reads the original records, also for a field $select drops, and $skip and
\* $top count positions of the filtered sequence.
C8_FilterThenSelectThenPaginate ==
    \A r \in Requests :
        DeliveredEnvelope(r) =>
            /\ options[r].filter = FLT_eqWall =>
                replies[r][1].value =
                    ExpectedValue(elements[r], LAMBDA e : e[F_type] = Str_Wall, options[r])
            /\ options[r].filter = FLT_containsUm =>
                replies[r][1].value =
                    ExpectedValue(elements[r],
                                  LAMBDA e : ContainsIgnoringCase(e, F_name, <<"u","M">>),
                                  options[r])

C8_Witness ==
    /\ DeliveredEnvelope(1) /\ Len(elements[1]) = 5
    /\ options[1].filter = FLT_eqWall /\ options[1].select = SEL_id
    /\ options[1].skip = Num(1) /\ options[1].top = Absent
    /\ replies[1][1].value = <<(F_id :> Str_1)>>

\* C9: for a filter <field> eq '<value>' the value is the window of the
\* projection of exactly the records whose field is the string value, in
\* their order, and the count stays the aggregated count.
C9_EqualityFilter ==
    \A r \in Requests : \A f \in FieldNames : \A v \in FilterValues :
        (DeliveredEnvelope(r) /\ options[r].filter = EqFilter(f, v)) =>
            /\ replies[r][1].value =
                    ExpectedValue(elements[r], LAMBDA e : e[f] = v, options[r])
            /\ replies[r][1].count = Len(elements[r])

UnsupportedFilters == {FLT_unknown, FLT_eqUnquoted}

\* C12: a filter expression that has none of the three supported forms never
\* produces the error outcome, and the value is the window of the projection
\* of all the aggregated records.
C12_UnsupportedFilterReturnsAll ==
    \A r \in Requests :
        (phase[r] = "done" /\ DescriptorLoads(r)
         /\ "models" \in DOMAIN ProjectFile(projectId[r]).data
         /\ options[r].filter \in UnsupportedFilters) =>
            /\ DeliveredEnvelope(r)
            /\ replies[r][1].value =
                    ExpectedValue(elements[r], LAMBDA e : TRUE, options[r])

\* C13 as claimed: a supported filter on a field name no record has is
\* treated as no filter, every record being returned.
C13_MissingFieldMeansNoFilter ==
    \A r \in Requests :
        (DeliveredEnvelope(r)
         /\ options[r].filter \in {FLT_eqNoField, FLT_containsNoField}) =>
            replies[r][1].value =
                ExpectedValue(elements[r], LAMBDA e : TRUE, options[r])

\* C13 as amended: a supported filter on a field name no record has keeps no
\* record and reports no error, the count staying the aggregated count; a
\* contains or startswith filter never returns a record whose field is null.
C13_MissingFieldExcludes ==
    \A r \in Requests :
        (phase[r] = "done" /\ DescriptorLoads(r)
         /\ "models" \in DOMAIN ProjectFile(projectId[r]).data) =>
            /\ options[r].filter \in {FLT_eqNoField, FLT_containsNoField} =>
                /\ DeliveredEnvelope(r)
                /\ replies[r][1].value = <<>>
                /\ replies[r][1].count = Len(elements[r])
            /\ (options[r].filter \in {FLT_containsUm, FLT_startswithPu}
                /\ options[r].select = Undefined) =>
                /\ DeliveredEnvelope(r)
                /\ \A k \in DOMAIN replies[r][1].value :
                        replies[r][1].value[k][F_name] # Null

C13_Witness ==
    /\ DeliveredEnvelope(1) /\ options[1].filter = FLT_eqNoField
    /\ options[1].select = Undefined /\ options[1].skip = Absent
    /\ options[1].top = Absent
    /\ replies[1][1].count = 5 /\ replies[1][1].value = <<>>

\* The field and the value the Server class compares for an expression that
\* contains " eq ".
ClassEqField(filterExpression) == trim(split(filterExpression, S_eq)[1])
ClassEqValue(filterExpression) == removeQuotes(trim(split(filterExpression, S_eq)[2]))

\* C14: one form is applied, equality before contains before startswith. An
\* expression holding a startswith call and a contains call is evaluated as
\* the contains form alone, never as the conjunction; an expression holding a
\* contains call and an equality is evaluated as an equality alone (on the
\* first quoted comparison in the HTTP server, on the text around the first
\* " eq " in the Server class); two equalities joined by "and" are evaluated
\* as one equality.
C14_OneFormByPrecedence ==
    \A r \in Requests :
        DeliveredEnvelope(r) =>
            /\ options[r].filter = FLT_startswithAndContains =>
                replies[r][1].value =
                    ExpectedValue(elements[r],
                                  LAMBDA e : ContainsIgnoringCase(e, F_name, <<"u","M">>),
                                  options[r])
            /\ (options[r].filter \in {FLT_containsAndEq, FLT_eqCompound}
                /\ impl[r] = "http") =>
                replies[r][1].value =
                    ExpectedValue(elements[r], LAMBDA e : e[F_type] = Str_Wall, options[r])
            /\ (options[r].filter \in {FLT_containsAndEq, FLT_eqCompound}
                /\ impl[r] = "class") =>
                replies[r][1].value =
                    ExpectedValue(elements[r],
                                  LAMBDA e : Get(e, ClassEqField(options[r].filter))
                                                = ClassEqValue(options[r].filter),
                                  options[r])

C14_Witness ==
    /\ DeliveredEnvelope(1) /\ options[1].filter = FLT_startswithAndContains
    /\ options[1].select = Undefined /\ options[1].skip = Absent
    /\ options[1].top = Absent
    /\ Len(elements[1]) = 5 /\ Len(replies[1][1].value) = 2
    /\ replies[1][1].value[2][F_name] = Str_sump

\* C15: with $select present and no filter, every record of the value is the
\* record at its position of the aggregated sequence restricted to the
\* requested names it owns, each kept key carrying the original value, null
\* included; a requested name that is no key of the record is dropped and no
\* error is reported.
C15_SelectKeepsOwnRequestedKeys ==
    \A r \in Requests :
        (phase[r] = "done" /\ DescriptorLoads(r)
         /\ "models" \in DOMAIN ProjectFile(projectId[r]).data
         /\ options[r].filter = Undefined /\ options[r].select # Undefined) =>
            /\ DeliveredEnvelope(r)
            /\ LET value == replies[r][1].value
                   s == RequestedSkip(options[r])
               IN \A k \in DOMAIN value :
                    /\ DOMAIN value[k] =
                            RequestedFields(options[r].select) \cap FieldNames
                    /\ \A f \in DOMAIN value[k] : value[k][f] = elements[r][s + k][f]

C15_Witness ==
    /\ DeliveredEnvelope(1) /\ impl[1] = "class"
    /\ options[1].filter = Undefined /\ options[1].select = SEL_idNameZz
    /\ options[1].skip = Absent /\ options[1].top = Absent
    /\ Len(replies[1][1].value) = 5
    /\ replies[1][1].value[2] = (F_id :> Str_2) @@ (F_name :> Null)

\* C16: for a skip s >= 0 and a limit t > 0 the value is the contiguous window
\* of the filtered and projected sequence S that starts after its first s
\* records and holds at most t records in S's order; it is empty when s is at
\* or beyond the length of S.
C16_WindowOfFilteredSequence ==
    \A r \in Requests :
        (/\ DeliveredEnvelope(r)
         /\ options[r].filter \in {Undefined, FLT_eqWall}
         /\ options[r].skip.kind = "number" /\ options[r].skip.n >= 0
         /\ options[r].top.kind = "number" /\ options[r].top.n > 0) =>
            LET kept == IF options[r].filter = Undefined THEN elements[r]
                        ELSE SelectSeq(elements[r], LAMBDA e : e[F_type] = Str_Wall)
                S == [i \in 1..Len(kept) |-> Projected(kept[i], options[r])]
                s == options[r].skip.n
                t == options[r].top.n
                value == replies[r][1].value
            IN /\ Len(value) <= t
               /\ s >= Len(S) => value = <<>>
               /\ s < Len(S) => Len(value) = (IF Len(S) - s < t THEN Len(S) - s ELSE t)
               /\ \A k \in DOMAIN value : value[k] = S[s + k]

C16_Witness ==
    /\ DeliveredEnvelope(1) /\ projectId[1] = P_one
    /\ options[1].filter = Undefined /\ options[1].select = Undefined
    /\ options[1].skip = Num(1) /\ options[1].top = Num(1)
    /\ Len(elements[1]) = 3
    /\ replies[1][1].value = <<elements[1][2]>>

\* A skip at the length of the filtered sequence leaving no record.
C16_WitnessSkipBeyond ==
    /\ DeliveredEnvelope(1) /\ options[1].filter = FLT_eqWall
    /\ options[1].skip = Num(2) /\ options[1].top = Num(1)
    /\ Len(elements[1]) = 5 /\ replies[1][1].value = <<>>

\* The $skip, the $top of the options is one the defaults apply to.
SkipDefaults(o) == o.skip.kind # "number" \/ o.skip.n < 0
TopDefaults(o) == o.top.kind # "number" \/ o.top.n <= 0

\* C17: an absent, negative or non-numeric $skip drops no record from the
\* front, and an absent, zero, negative or non-numeric $top keeps every
\* remaining record; neither reports an error.
C17_PaginationDefaults ==
    \A r \in Requests :
        (phase[r] = "done" /\ DescriptorLoads(r)
         /\ "models" \in DOMAIN ProjectFile(projectId[r]).data
         /\ options[r].filter = Undefined
         /\ (SkipDefaults(options[r]) \/ TopDefaults(options[r]))) =>
            /\ DeliveredEnvelope(r)
            /\ LET S == [i \in 1..Len(elements[r]) |-> Projected(elements[r][i], options[r])]
                   value == replies[r][1].value
               IN /\ SkipDefaults(options[r]) =>
                        /\ \A k \in DOMAIN value : value[k] = S[k]
                        /\ S # <<>> => value # <<>>
                  /\ TopDefaults(options[r]) =>
                        /\ Len(value) = (IF Len(S) > RequestedSkip(options[r])
                                         THEN Len(S) - RequestedSkip(options[r]) ELSE 0)
                        /\ \A k \in DOMAIN value :
                                value[k] = S[RequestedSkip(options[r]) + k]

C17_Witness ==
    /\ DeliveredEnvelope(1) /\ options[1].filter = Undefined
    /\ options[1].select = Undefined
    /\ options[1].skip = Num(-1) /\ options[1].top = Num(0)
    /\ Len(elements[1]) = 5 /\ replies[1][1].value = elements[1]

\* The fields a MetaObject may lack.
OptionalFields == {F_name, F_type, F_parent, F_attributes}

\* C18: every aggregated record has exactly the seven keys id, projectId,
\* modelId, name, type, parent and attributes; name, type, parent and
\* attributes are a string or null, never undefined, so a projection onto any
\* of them returns the key.
C18_SevenKeysNullFilled ==
    \A r \in Requests :
        /\ \A i \in DOMAIN elements[r] :
            /\ DOMAIN elements[r][i] = FieldNames
            /\ \A f \in OptionalFields : elements[r][i][f] # Undefined
            /\ elements[r][i][F_name] # <<>>
        /\ (DeliveredEnvelope(r) /\ options[r].select = SEL_idNameZz) =>
            \A k \in DOMAIN replies[r][1].value :
                F_name \in DOMAIN replies[r][1].value[k]

C18_Witness ==
    /\ DeliveredEnvelope(1) /\ options[1].select = SEL_idNameZz
    /\ options[1].filter = Undefined /\ options[1].skip = Absent
    /\ options[1].top = Absent /\ Len(replies[1][1].value) = 5
    /\ \E i \in DOMAIN elements[1] :
        /\ elements[1][i][F_name] = Null /\ elements[1][i][F_type] = Null
        /\ elements[1][i][F_attributes] = Null
        /\ replies[1][1].value[i][F_name] = Null

\* The number of entries of a document's object collection.
EntryCount(metadata) ==
    IF hasMetaObjects(metadata) THEN Len(metadata.metaObjects.entries) ELSE 0

\* The aggregated records of the request that belong to model m.
RecordsOfModel(r, m) == {k \in DOMAIN elements[r] : elements[r][k][F_modelId] = m}

\* C19: once the metadata of a model has been delivered to the request, the
\* aggregated collection holds one record per entry of the model's object
\* collection, tagged with the request's projectId and the model's id, also
\* when another model has entries with the same ids; the count of a delivered
\* envelope is the sum of the entry counts of the delivered models.
C19_OneRecordPerEntry ==
    \A r \in Requests :
        /\ \A k \in DOMAIN elements[r] : elements[r][k][F_projectId] = projectId[r]
        /\ \A i \in DOMAIN fetch[r] :
            fetch[r][i] \notin {"outstanding", "failed"} =>
                Cardinality(RecordsOfModel(r, ModelOf(r, i)))
                    = EntryCount(MetadataDoc(ModelOf(r, i)))
        /\ \A i \in DOMAIN fetch[r] :
            fetch[r][i] \in {"outstanding", "failed"} =>
                RecordsOfModel(r, ModelOf(r, i)) = {}

\* The records of the request's own models whose documents it has received,
\* model by model in the descriptor's order.
RECURSIVE OwnRecords(_, _)
OwnRecords(r, i) ==
    IF i > Len(fetch[r]) THEN <<>>
    ELSE (IF fetch[r][i] = "ok"
          THEN flatten(impl[r], projectId[r], ModelOf(r, i), MetadataDoc(ModelOf(r, i)))
          ELSE <<>>)
         \o OwnRecords(r, i + 1)

\* The envelope the implementation builds from a request's records and options.
ResponseOf(r) ==
    IF impl[r] = "class" THEN Server_returnODataResponse(elements[r], options[r])
    ELSE http_returnODataResponse(elements[r], options[r])

\* C20: with two requests in flight and their callbacks interleaved, each
\* request counts only its own settled fetches, aggregates only the records
\* of its own models, and delivers the envelope built from its own records
\* and options once all of its own fetches have settled.
C20_RequestsIndependent ==
    \A r \in Requests :
        /\ modelsProcessed[r] =
                Cardinality({i \in DOMAIN fetch[r] : fetch[r][i] \in {"ok", "failed"}})
        /\ SameRecords(elements[r], OwnRecords(r, 1))
        /\ Len(replies[r]) <= 1
        /\ (phase[r] = "models" /\ AllSettled(r)) => FALSE
        /\ DeliveredEnvelope(r) /\ fetch[r] # <<>> =>
                /\ AllSettled(r)
                /\ replies[r][1] = ResponseOf(r)

C20_Witness ==
    /\ projectId[1] = P_two /\ projectId[2] = P_two
    /\ phase[1] = "models" /\ fetch[1] = <<"outstanding", "ok">>
    /\ modelsProcessed[1] = 1 /\ Len(elements[1]) = 2
    /\ DeliveredEnvelope(2) /\ fetch[2] = <<"ok", "ok">>
    /\ modelsProcessed[2] = 2 /\ replies[2][1].count = 5

\* C21: when every fetch settles with one callback, a request never holds more
\* than one outcome, its settled counter never exceeds the number of its
\* model references, and it eventually holds exactly one outcome.
C21_ExactlyOneOutcome ==
    /\ [](\A r \in Requests :
            /\ Len(replies[r]) <= 1
            /\ modelsProcessed[r] <= Len(ModelRefs(projectId[r])))
    /\ \A r \in Requests : (phase[r] = "project") ~> (Len(replies[r]) = 1)

\* The models of a request's aggregated records, in aggregation order: equal
\* for two requests whose fetches completed in the same order.
ModelOrder(r) == [k \in 1..Len(elements[r]) |-> elements[r][k][F_modelId]]

\* C22: the Server class and the HTTP server, given the same descriptor, the
\* same load outcomes in the same completion order and the same options,
\* deliver the same kind of outcome and, for envelopes, the same count and
\* the same value.
C22_ImplementationsEquivalent ==
    (/\ phase[1] = "done" /\ phase[2] = "done"
     /\ impl[1] = "class" /\ impl[2] = "http"
     /\ projectId[1] = projectId[2] /\ options[1] = options[2]
     /\ ModelOrder(1) = ModelOrder(2)) =>
        /\ replies[1][1].kind = replies[2][1].kind
        /\ replies[1][1].kind = "envelope" =>
            /\ replies[1][1].count = replies[2][1].count
            /\ replies[1][1].value = replies[2][1].value
====
